---- MODULE Spec2Model ----
(***************************************************************************)
(* A model of generate_compile_commands.py: the translation of a Bazel     *)
(* action graph into a compile_commands.json database.                     *)
(*                                                                         *)
(* Strings.  A Python str is modelled as a sequence of atoms.  An atom is  *)
(* an indivisible run of characters ("/", "external", "bazel-", ".cc",     *)
(* "-I", ...); the atoms are chosen so that every prefix test, slice and   *)
(* separator split of the code falls on an atom boundary.  The empty str   *)
(* is <<>>.  An optional value (None or a str) is a sequence of at most    *)
(* one str: <<>> is None (or an absent key).                               *)
(***************************************************************************)
EXTENDS Integers, Sequences, FiniteSets, TLC

VARIABLES
    fs,                  \* the file system: the set of paths that exist
    pc,                  \* main: position in main()
    returncode,          \* main: result.returncode of the aquery subprocess
    stdout,              \* main: result.stdout, the action graph as returned
    action_graph,        \* main: json.loads(result.stdout), mutated in place
    heap,                \* main: the list objects made by list(arguments)
    entries,             \* main: the entries list
    entries_by_filename, \* main: the dict, as its items in insertion order
    position,            \* main: the running loops' counters
    compile_commands,    \* the output file compile_commands.json
    exit_status,         \* main: the process's exit status, <<>> while running
    raised,              \* main: the uncaught exception, "none" if none
    record,              \* process_action called alone: the action's list
    calls,               \* process_action called alone: what each call gave
    include,             \* rewrite_include called alone: its argument
    rewritten            \* rewrite_include called alone: <<result>> once called

vars == <<fs, pc, returncode, stdout, action_graph, heap, entries,
          entries_by_filename, position, compile_commands, exit_status,
          raised, record, calls, include, rewritten>>

mainVars == <<pc, returncode, stdout, action_graph, heap, entries,
              entries_by_filename, position, compile_commands, exit_status,
              raised>>

----------------------------------------------------------------------------
(* str operations *)

StartsWith(s, prefix) ==
    Len(s) >= Len(prefix) /\ SubSeq(s, 1, Len(prefix)) = prefix

\* s[k:]
SliceFrom(s, k) == SubSeq(s, k + 1, Len(s))

----------------------------------------------------------------------------
(* pathlib.PurePosixPath, as the str it formats to *)

RECURSIVE SplitParts(_)
\* s.split("/")
SplitParts(s) ==
    IF \A i \in 1..Len(s) : s[i] # "/"
    THEN <<s>>
    ELSE LET k == CHOOSE i \in 1..Len(s) :
                      s[i] = "/" /\ \A j \in 1..(i - 1) : s[j] # "/"
         IN  <<SubSeq(s, 1, k - 1)>> \o SplitParts(SubSeq(s, k + 1, Len(s)))

IsComponent(p) == p # <<>> /\ p # <<".">>

\* The components a path keeps: empty ones and "." are dropped.
Parts(s) == SelectSeq(SplitParts(s), IsComponent)

\* "/" for an absolute path, "//" for exactly two leading slashes (POSIX).
Root(s) ==
    IF Len(s) >= 2 /\ s[1] = "/" /\ s[2] = "/" /\ (Len(s) = 2 \/ s[3] # "/")
    THEN <<"/", "/">>
    ELSE IF Len(s) >= 1 /\ s[1] = "/" THEN <<"/">> ELSE <<>>

RECURSIVE JoinParts(_)
JoinParts(parts) ==
    IF parts = <<>> THEN <<>>
    ELSE IF Len(parts) = 1 THEN parts[1]
    ELSE parts[1] \o <<"/">> \o JoinParts(Tail(parts))

\* os.fspath(PurePath(s))
fspath(s) ==
    LET body == JoinParts(Parts(s))
    IN  IF Root(s) = <<>> /\ body = <<>> THEN <<".">> ELSE Root(s) \o body

\* os.fspath(PurePath(p) / s): an absolute s replaces p.
PathJoin(p, s) ==
    IF StartsWith(s, <<"/">>) THEN fspath(s)
    ELSE IF p = <<"/">> THEN fspath(p \o s)
    ELSE fspath(p \o <<"/">> \o s)

\* PurePath(p).name
Name(p) == IF Parts(p) = <<>> THEN <<>> ELSE Parts(p)[Len(Parts(p))]

----------------------------------------------------------------------------
(* the roots *)

workspace == <<"/", "ws">>

output_base == <<"/", "ob">>

execroot == PathJoin(workspace, <<"bazel-">> \o Name(workspace))

execroot_external == PathJoin(execroot, <<"external">>)

EXTERNAL == <<"external", "/">>

rewrite_include(inc, er_external, ob) ==
    IF StartsWith(inc, er_external)
    THEN PathJoin(PathJoin(ob, <<"external">>), SliceFrom(inc, Len(er_external)))
    ELSE IF StartsWith(inc, EXTERNAL)
    THEN PathJoin(PathJoin(ob, <<"external">>), SliceFrom(inc, Len(EXTERNAL)))
    ELSE inc

----------------------------------------------------------------------------
(* process_action *)

INCLUDE_FLAG == {<<"-I">>, <<"-iquote">>, <<"-isystem">>}

\* The include flags an argument starts with.  The code takes the first one
\* that a frozenset's iteration meets; no flag is a prefix of another, so at
\* most one matches and the iteration order cannot show.
FusedFlags(argument) == {flag \in INCLUDE_FLAG : StartsWith(argument, flag)}

\* The state of the scan before the while loop.
ScanStart(arguments) ==
    [ arguments           |-> arguments,
      index               |-> 1,
      source              |-> <<>>,
      output              |-> <<>>,
      include_directories |-> <<>>,
      raised              |-> "none" ]

\* The "-c" branch: the next argument is the source, rewritten in place.
\* arguments[index + 1] past the end of the list raises IndexError before
\* anything is assigned, here and in the next two branches.
ScanSource(st) ==
    IF st.index = Len(st.arguments) THEN [st EXCEPT !.raised = "IndexError"]
    ELSE [st EXCEPT
            !.source = <<st.arguments[st.index + 1]>>,
            !.arguments[st.index + 1] =
                PathJoin(workspace, st.arguments[st.index + 1]),
            !.index = st.index + 2]

\* ScanOutput forgetting to pass over the output: the value is scanned as
\* an argument of its own.
ScanOutputValueScanned(st) ==
    IF st.index = Len(st.arguments) THEN [st EXCEPT !.raised = "IndexError"]
    ELSE [st EXCEPT
            !.output = <<st.arguments[st.index + 1]>>,
            !.index = st.index + 1]

\* The "-o" branch: the next argument is the output, left as it is.
ScanOutput(st) ==
    IF st.index = Len(st.arguments) THEN [st EXCEPT !.raised = "IndexError"]
    ELSE [st EXCEPT
            !.output = <<st.arguments[st.index + 1]>>,
            !.index = st.index + 2]

\* The include-flag branch: the next argument is an include path; the
\* rewritten path is the one recorded.
ScanInclude(st) ==
    IF st.index = Len(st.arguments) THEN [st EXCEPT !.raised = "IndexError"]
    ELSE LET path == rewrite_include(st.arguments[st.index + 1],
                                     execroot_external, output_base)
         IN  [st EXCEPT
                !.arguments[st.index + 1] = path,
                !.include_directories =
                    Append(@, [flag |-> st.arguments[st.index], dir |-> path]),
                !.index = st.index + 2]

\* The else branch: a fused include flag is rewritten in place and recorded
\* with its path as given; any other argument is passed over.
ScanOther(st) ==
    LET argument == st.arguments[st.index]
    IN  IF FusedFlags(argument) = {} THEN [st EXCEPT !.index = st.index + 1]
        ELSE LET flag == CHOOSE f \in FusedFlags(argument) : TRUE
                 path == SliceFrom(argument, Len(flag))
             IN  [st EXCEPT
                    !.arguments[st.index] =
                        flag \o rewrite_include(path, execroot_external,
                                                output_base),
                    !.include_directories =
                        Append(@, [flag |-> flag, dir |-> path]),
                    !.index = st.index + 1]

\* One iteration of the while loop.
ScanStep(st) ==
    LET argument == st.arguments[st.index]
    IN  IF argument = <<"-c">> THEN ScanSource(st)
        ELSE IF argument = <<"-o">> THEN ScanOutput(st)
        ELSE IF argument \in INCLUDE_FLAG THEN ScanInclude(st)
        ELSE ScanOther(st)

RECURSIVE Scan(_)
\* The while loop, to its end or to the exception that leaves it.
Scan(st) ==
    IF st.raised # "none" \/ st.index > Len(st.arguments) THEN st
    ELSE Scan(ScanStep(st))

\* IsLocalInclude without the test for build-output paths.
IsLocalIncludeNoBazel(include_dir) ==
    /\ include_dir[1] # "/"
    /\ ~ StartsWith(include_dir, EXTERNAL)

\* The condition under which an include directory gets a workspace copy.
\* include_dir[0] of an empty str raises IndexError: the caller tests that.
IsLocalInclude(include_dir) ==
    /\ include_dir[1] # "/"
    /\ ~ StartsWith(include_dir, <<"bazel-">>)
    /\ ~ StartsWith(include_dir, EXTERNAL)

RECURSIVE ExtendLocalIncludes(_, _)
\* The for loop over include_directories, from its i-th item on.
ExtendLocalIncludes(st, i) ==
    IF i > Len(st.include_directories) THEN st
    ELSE LET item == st.include_directories[i]
         IN  IF item.dir = <<>> THEN [st EXCEPT !.raised = "IndexError"]
             ELSE IF IsLocalInclude(item.dir)
             THEN ExtendLocalIncludes(
                      [st EXCEPT !.arguments =
                           @ \o <<item.flag, PathJoin(workspace, item.dir)>>],
                      i + 1)
             ELSE ExtendLocalIncludes(st, i + 1)

\* source_file: the workspace's file if it exists, else the execroot's.
SourceFile(source, files) ==
    IF PathJoin(workspace, source) \in files
    THEN PathJoin(workspace, source)
    ELSE PathJoin(execroot, source)

\* process_action(action, workspace, output_base) on the file system `files`,
\* arguments being action["arguments"].  Gives the exception raised ("none":
\* it returned), the list as the call left it (it is changed in place, also
\* when the call raises) and the entry returned, as <<entry>>.
process_action(arguments, files) ==
    LET scanned == Scan(ScanStart(arguments))
        failed(st, exception) ==
            [raised |-> exception, arguments |-> st.arguments, entry |-> <<>>]
    IN  IF scanned.raised # "none" THEN failed(scanned, scanned.raised)
        ELSE IF scanned.output = <<>> THEN failed(scanned, "AssertionError")
        ELSE IF scanned.source = <<>> THEN failed(scanned, "AssertionError")
        ELSE LET extended == ExtendLocalIncludes(scanned, 1)
             IN  IF extended.raised # "none"
                 THEN failed(extended, extended.raised)
                 ELSE [ raised    |-> "none",
                        arguments |-> extended.arguments,
                        entry     |-> << [
                            directory |-> fspath(execroot),
                            file      |-> SourceFile(scanned.source[1], files),
                            arguments |-> extended.arguments,
                            output    |-> scanned.output ] >> ]

----------------------------------------------------------------------------
(* rewrite_include called alone, on every include path of a bounded set *)

MaxRest == 3

RestAtoms == {"/", "x", "."}

Rests == UNION {[1..n -> RestAtoms] : n \in 0..MaxRest}

Prefixes ==
    { <<>>, EXTERNAL, <<"external">>, execroot_external \o <<"/">>,
      execroot_external, execroot \o <<"/">>, <<"bazel-">>, <<"x", "/">> }

IncludeInputs == {p \o r : p \in Prefixes, r \in Rests}

mainIdle ==
    /\ pc = "idle"
    /\ returncode = <<>>
    /\ stdout = <<>>
    /\ action_graph = <<>>
    /\ heap = <<>>
    /\ entries = <<>>
    /\ entries_by_filename = <<>>
    /\ position = [action |-> 1, item |-> 1, extension |-> 1]
    /\ compile_commands = [opened |-> FALSE, entries |-> <<>>]
    /\ exit_status = <<>>
    /\ raised = "none"

InitRewrite ==
    /\ mainIdle
    /\ fs = {}
    /\ record = <<>>
    /\ calls = <<>>
    /\ include \in IncludeInputs
    /\ rewritten = <<>>

CallRewriteInclude ==
    /\ rewritten = <<>>
    /\ rewritten' = <<rewrite_include(include, execroot_external, output_base)>>
    /\ UNCHANGED <<fs, record, calls, include>>
    /\ UNCHANGED mainVars

SpecRewrite == InitRewrite /\ [][CallRewriteInclude]_vars

\* The path an external-dependency remainder is meant to be rewritten to.
UnderOutputBase(rest) == fspath(output_base \o <<"/", "external", "/">> \o rest)

\* C2: every include path with the external-dependency prefix, bare
\* (external/<rest>) or execution-root-qualified (<execRoot>/external/<rest>),
\* is rewritten to <outputBase>/external/<rest>; so both forms of one
\* dependency path get the same result.  Stated for relative remainders.
C2_ExternalRootedAtOutputBase ==
    rewritten # <<>> =>
        \A rest \in Rests :
            (/\ ~ StartsWith(rest, <<"/">>)
             /\ \/ include = EXTERNAL \o rest
                \/ include = execroot \o <<"/">> \o EXTERNAL \o rest)
            => rewritten[1] = UnderOutputBase(rest)

----------------------------------------------------------------------------
(* process_action called alone, on every argument vector of a bounded set, *)
(* and again on the list object the call before left.                      *)

MaxGroups == 4

MaxCalls == 2

SRC == <<"a", ".cc">>

OBJ == <<"a", ".o">>

INC == <<"inc">>

EXT == EXTERNAL \o <<"x">>

QUAL == execroot_external \o <<"/", "x">>

GEN == <<"bazel-", "out">>

\* An argument vector is made of at most MaxGroups of these runs of
\* arguments: every flag alone, flags with their values, paths of each kind.
ArgGroups ==
    { << <<"-c">>, SRC >>,
      << <<"-o">>, OBJ >>,
      << <<"-c">> >>,
      << <<"-o">> >>,
      << <<"-I">> >>,
      << <<"-iquote">>, INC >>,
      << EXT >>,
      << <<>> >>,
      << <<"-I">> \o INC >>,
      << <<"-isystem">> \o QUAL >>,
      << <<"-isystem">>, GEN >> }

RECURSIVE Flatten(_)
Flatten(groups) ==
    IF groups = <<>> THEN <<>> ELSE groups[1] \o Flatten(Tail(groups))

ArgVectors == {Flatten(g) : g \in UNION {[1..n -> ArgGroups] : n \in 0..MaxGroups}}

ActionFs == {{}, {PathJoin(workspace, SRC)}}

InitAction ==
    /\ mainIdle
    /\ fs \in ActionFs
    /\ record \in ArgVectors
    /\ calls = <<>>
    /\ include = <<>>
    /\ rewritten = <<>>

CallProcessAction ==
    /\ Len(calls) < MaxCalls
    /\ LET result == process_action(record, fs)
       IN  /\ record' = result.arguments
           /\ calls' = Append(calls, [ given  |-> record,
                                       raised |-> result.raised,
                                       entry  |-> result.entry ])
    /\ UNCHANGED <<fs, include, rewritten>>
    /\ UNCHANGED mainVars

SpecAction == InitAction /\ [][CallProcessAction]_vars

ConsumingFlags == {<<"-c">>, <<"-o">>} \cup INCLUDE_FLAG

Count(v, token) == Cardinality({i \in 1..Len(v) : v[i] = token})

RECURSIVE IsValuePos(_, _)
\* Argument i is the value of the flag before it: that flag is one that
\* takes a value and is not itself the value of the one before.
IsValuePos(v, i) ==
    i > 1 /\ v[i - 1] \in ConsumingFlags /\ ~ IsValuePos(v, i - 1)

\* Argument i is the flag `flag`, read as a flag.
IsFlagAt(v, i, flag) == v[i] = flag /\ ~ IsValuePos(v, i)

IsSeparateInclude(v, i) == IsValuePos(v, i) /\ v[i - 1] \in INCLUDE_FLAG

IsFusedInclude(v, i) ==
    /\ ~ IsValuePos(v, i)
    /\ v[i] \notin ConsumingFlags
    /\ \E flag \in INCLUDE_FLAG : StartsWith(v[i], flag)

\* The flag and the path of the include directive at argument i.
Directive(v, i) ==
    IF IsSeparateInclude(v, i) THEN [flag |-> v[i - 1], dir |-> v[i]]
    ELSE LET flag == CHOOSE f \in INCLUDE_FLAG : StartsWith(v[i], f)
         IN  [flag |-> flag, dir |-> SliceFrom(v[i], Len(flag))]

\* A path is local: not absolute, not build output, not an external dependency.
IsLocalPath(dir) ==
    /\ ~ StartsWith(dir, <<"/">>)
    /\ ~ StartsWith(dir, <<"bazel-">>)
    /\ ~ StartsWith(dir, <<"external", "/">>)

RECURSIVE LocalPairs(_, _)
\* One (flag, <workspace>/<dir>) pair for each local include directive among
\* the arguments i.., in order.
LocalPairs(v, i) ==
    IF i > Len(v) THEN <<>>
    ELSE IF (IsSeparateInclude(v, i) \/ IsFusedInclude(v, i))
            /\ IsLocalPath(Directive(v, i).dir)
    THEN <<Directive(v, i).flag,
           fspath(workspace \o <<"/">> \o Directive(v, i).dir)>>
         \o LocalPairs(v, i + 1)
    ELSE LocalPairs(v, i + 1)

\* C9: when process_action returns, the entry's arguments are the given
\* vector, same length and order, every argument unchanged but the source
\* path and the include paths (the -o value too is unchanged), followed by
\* one (flag, <workspace>/<dir>) pair per local include directive, separate or
\* fused, in scan order, and by nothing else.
C9_RewrittenArguments ==
    \A n \in 1..Len(calls) :
        calls[n].raised = "none" =>
            LET v == calls[n].given
                out == calls[n].entry[1].arguments
            IN  /\ Len(out) >= Len(v)
                /\ \A i \in 1..Len(v) :
                       \/ IsValuePos(v, i) /\ v[i - 1] = <<"-c">>
                       \/ IsSeparateInclude(v, i)
                       \/ IsFusedInclude(v, i)
                       \/ out[i] = v[i]
                /\ SubSeq(out, Len(v) + 1, Len(out)) = LocalPairs(v, 1)

\* C9's case: a returned entry whose vector has a local separate and then a
\* local fused include directive, and an -o value: two pairs are appended.
C9_Witness ==
    /\ Len(calls) >= 1
    /\ calls[1].raised = "none"
    /\ \E i, j, k \in 1..Len(calls[1].given) :
           LET v == calls[1].given
           IN  /\ i < j
               /\ IsSeparateInclude(v, i) /\ v[i] = INC
               /\ IsFusedInclude(v, j) /\ v[j] = <<"-I">> \o INC
               /\ IsFlagAt(v, k, <<"-o">>)
    /\ SubSeq(calls[1].entry[1].arguments, Len(calls[1].given) + 1,
              Len(calls[1].given) + 4)
           = <<<<"-iquote">>, workspace \o <<"/">> \o INC,
               <<"-I">>, workspace \o <<"/">> \o INC>>

\* C8 (its last part): processing the same action record a second time
\* yields the same entry as the first time.  Stated for the records whose
\* first processing gave an entry for a file that exists.
C8_SecondCallSameEntry ==
    (/\ Len(calls) >= 2
     /\ calls[1].raised = "none"
     /\ calls[1].entry[1].file \in fs)
    => /\ calls[2].raised = "none"
       /\ calls[2].entry = calls[1].entry

\* The index of the one argument equal to `flag`.
TheIndex(v, flag) == CHOOSE i \in 1..Len(v) : v[i] = flag

\* C5: for every argument vector with exactly one -c token and exactly one
\* -o token, wherever they stand, process_action returns one entry, whose
\* file is derived from the argument after -c and whose output is the
\* argument after -o, both non-empty; it never fails.
C5_ExactlyOneEach ==
    \A n \in 1..Len(calls) :
        LET v == calls[n].given
            c == TheIndex(v, <<"-c">>)
            o == TheIndex(v, <<"-o">>)
        IN  (Count(v, <<"-c">>) = 1 /\ Count(v, <<"-o">>) = 1) =>
                /\ calls[n].raised = "none"
                /\ Len(calls[n].entry) = 1
                /\ c < Len(v)
                /\ o < Len(v)
                /\ calls[n].entry[1].file \in
                       {PathJoin(workspace, v[c + 1]), PathJoin(execroot, v[c + 1])}
                /\ calls[n].entry[1].file # <<>>
                /\ calls[n].entry[1].output = <<v[o + 1]>>
                /\ v[o + 1] # <<>>

\* -c and -o are both read as flags and have a value, and every include flag
\* read as a flag has a non-empty value.
WellPlaced(v) ==
    /\ \E i \in 1..(Len(v) - 1) : IsFlagAt(v, i, <<"-c">>)
    /\ \E i \in 1..(Len(v) - 1) : IsFlagAt(v, i, <<"-o">>)
    /\ \A i \in 1..Len(v) :
           (v[i] \in ConsumingFlags /\ ~ IsValuePos(v, i)) => i < Len(v)
    /\ \A i \in 1..Len(v) : IsSeparateInclude(v, i) => v[i] # <<>>

\* C5 as amended: for every argument vector with exactly one -c token and
\* exactly one -o token, process_action returns one entry exactly when both
\* tokens are read as flags (neither is taken as the value of the flag before
\* it), every flag read has an argument after it and no separate include flag
\* has an empty value; the entry's file is then the argument after -c under
\* the workspace if that file exists and under the execution root if not
\* (never empty), and its output is the argument after -o as given.
\* Otherwise the call raises and returns no entry.
C5_FlagsReadAsFlags ==
    \A n \in 1..Len(calls) :
        LET v == calls[n].given
            c == TheIndex(v, <<"-c">>)
            o == TheIndex(v, <<"-o">>)
        IN  (Count(v, <<"-c">>) = 1 /\ Count(v, <<"-o">>) = 1) =>
                IF WellPlaced(v)
                THEN /\ calls[n].raised = "none"
                     /\ Len(calls[n].entry) = 1
                     /\ calls[n].entry[1].file =
                            IF PathJoin(workspace, v[c + 1]) \in fs
                            THEN PathJoin(workspace, v[c + 1])
                            ELSE PathJoin(execroot, v[c + 1])
                     /\ calls[n].entry[1].file # <<>>
                     /\ calls[n].entry[1].output = <<v[o + 1]>>
                ELSE /\ calls[n].raised \in {"AssertionError", "IndexError"}
                     /\ calls[n].entry = <<>>

\* C5's case: an entry returned for a vector whose one -o comes before its
\* one -c, an include flag with its value between them.
C5_Witness ==
    /\ Len(calls) >= 1
    /\ calls[1].raised = "none"
    /\ LET v == calls[1].given
       IN  /\ Count(v, <<"-c">>) = 1 /\ Count(v, <<"-o">>) = 1
           /\ TheIndex(v, <<"-o">>) < TheIndex(v, <<"-c">>)
           /\ \E i \in 1..Len(v) :
                  /\ IsSeparateInclude(v, i)
                  /\ TheIndex(v, <<"-o">>) < i
                  /\ i < TheIndex(v, <<"-c">>)
    /\ calls[1].entry[1].output = <<OBJ>>

----------------------------------------------------------------------------
(* main *)

TEMPLATE_EXTENSIONS == <<".inl", ".tcc">>

HEADER_EXTENSIONS == <<".hh", ".hpp", ".h">>

\* The atoms that are a file name's suffix when they end it.
SuffixAtoms == {".cc", ".cpp", ".o", ".inl", ".tcc", ".hh", ".hpp", ".h"}

\* PurePath(p).with_suffix(suffix), p a formatted path with a name: the
\* name's suffix, if it has one after its first character, is replaced.
with_suffix(p, suffix) ==
    LET name == Name(p)
        stem == IF Len(name) > 1 /\ name[Len(name)] \in SuffixAtoms
                THEN SubSeq(name, 1, Len(name) - 1)
                ELSE name
    IN  SubSeq(p, 1, Len(p) - Len(name)) \o stem \o <<suffix>>

\* The exit status sys.exit(code) gives the process.
ExitStatus(code) == code % 256

\* The exit status of an interpreter that ends on an uncaught exception.
UncaughtExceptionStatus == 1

RECURSIVE DictItems(_, _, _)
\* {Path(entry["file"]): entry for entry in entries}, from the i-th entry on,
\* as the items in insertion order: a key met again keeps its place and takes
\* the later value.  An entry is named by its index in the entries list.
DictItems(list, i, items) ==
    IF i > Len(list) THEN items
    ELSE LET key == fspath(list[i].file)
             at == {k \in 1..Len(items) : items[k].key = key}
         IN  IF at = {}
             THEN DictItems(list, i + 1, Append(items, [key |-> key, entry |-> i]))
             ELSE DictItems(list, i + 1,
                            [items EXCEPT ![CHOOSE k \in at : TRUE].entry = i])

Keys(items) == {items[k].key : k \in 1..Len(items)}

\* The index in HEADER_EXTENSIONS of the first header of inl_file that
\* exists, from the i-th extension on; 0 if none: the for ... break loop.
RECURSIVE FirstHeader(_, _, _)
FirstHeader(inl_file, files, i) ==
    IF i > Len(HEADER_EXTENSIONS) THEN 0
    ELSE IF PathJoin(workspace, with_suffix(inl_file, HEADER_EXTENSIONS[i])) \in files
    THEN i
    ELSE FirstHeader(inl_file, files, i + 1)

\* json.dump's view of the entries: each with the content of its list.
Dumped(list, lists) ==
    [k \in 1..Len(list) |->
        [ directory |-> list[k].directory,
          file      |-> list[k].file,
          arguments |-> lists[list[k].arguments],
          output    |-> list[k].output ]]

MaxActions == 2

Foo(suffix) == workspace \o <<"/", "foo", suffix>>

\* The argument vectors the query's action graph is made of.
ActionPool ==
    { << <<"-c">>, <<"foo", ".cc">>, <<"-o">>, <<"foo", ".o">> >>,
      << <<"-c">>, <<"foo", ".cpp">>, <<"-o">>, <<"foo", ".o">>, <<"-I">> \o INC >>,
      << <<"-c">>, <<"foo", ".cc">>, <<"-o">>, <<"foo", ".pic", ".o">> >>,
      << <<"-c">>, <<"foo", ".cc">> >>,
      << <<"-o">>, <<"foo", ".o">> >> }

ActionGraphs == UNION {[1..n -> ActionPool] : n \in 0..MaxActions}

\* The exit statuses the query can end with.
ReturnCodes == {0, 1, 2, 255}

\* The file systems: foo.cpp exists, each other file may.
MainFs ==
    { {Foo(".cpp")} \cup s :
        s \in SUBSET {Foo(".cc"), Foo(".inl"), Foo(".tcc"),
                      Foo(".hh"), Foo(".hpp"), Foo(".h")} }

\* compile_commands.json as the run finds it.
PriorFile == [opened |-> FALSE, entries |-> <<>>]

Init ==
    /\ fs \in MainFs
    /\ pc = "query"
    /\ returncode = <<>>
    /\ stdout = <<>>
    /\ action_graph = <<>>
    /\ heap = <<>>
    /\ entries = <<>>
    /\ entries_by_filename = <<>>
    /\ position = [action |-> 1, item |-> 1, extension |-> 1]
    /\ compile_commands = PriorFile
    /\ exit_status = <<>>
    /\ raised = "none"
    /\ record = <<>>
    /\ calls = <<>>
    /\ include = <<>>
    /\ rewritten = <<>>

aloneVars == <<record, calls, include, rewritten>>

\* QueryFailed exiting with a status of its own.
QueryFailedStatusOne ==
    /\ pc = "query"
    /\ \E code \in ReturnCodes \ {0} :
           /\ returncode' = <<code>>
           /\ exit_status' = <<1>>
    /\ pc' = "exited"
    /\ UNCHANGED <<fs, stdout, action_graph, heap, entries, entries_by_filename,
                   position, compile_commands, raised>>
    /\ UNCHANGED aloneVars

\* The aquery subprocess ends with a non-zero status: sys.exit(returncode).
QueryFailed ==
    /\ pc = "query"
    /\ \E code \in ReturnCodes \ {0} :
           /\ returncode' = <<code>>
           /\ exit_status' = <<ExitStatus(code)>>
    /\ pc' = "exited"
    /\ UNCHANGED <<fs, stdout, action_graph, heap, entries, entries_by_filename,
                   position, compile_commands, raised>>
    /\ UNCHANGED aloneVars

\* The aquery subprocess ends with status 0 and its output is parsed.
QuerySucceeded ==
    /\ pc = "query"
    /\ returncode' = <<0>>
    /\ \E graph \in ActionGraphs :
           /\ stdout' = graph
           /\ action_graph' = graph
    /\ pc' = "process"
    /\ UNCHANGED <<fs, heap, entries, entries_by_filename, position,
                   compile_commands, exit_status, raised>>
    /\ UNCHANGED aloneVars

\* One step of the list comprehension: process_action on the next action.
\* An exception it raises is caught nowhere and ends the run.
ProcessNextAction ==
    /\ pc = "process"
    /\ position.action <= Len(action_graph)
    /\ LET i == position.action
           result == process_action(action_graph[i], fs)
       IN  /\ action_graph' = [action_graph EXCEPT ![i] = result.arguments]
           /\ IF result.raised # "none"
              THEN /\ raised' = result.raised
                   /\ exit_status' = <<UncaughtExceptionStatus>>
                   /\ pc' = "exited"
                   /\ UNCHANGED <<heap, entries, position>>
              ELSE /\ heap' = Append(heap, result.entry[1].arguments)
                   /\ entries' = Append(entries,
                          [result.entry[1] EXCEPT !.arguments = Len(heap) + 1])
                   /\ position' = [position EXCEPT !.action = i + 1]
                   /\ UNCHANGED <<raised, exit_status, pc>>
    /\ UNCHANGED <<fs, returncode, stdout, entries_by_filename, compile_commands>>
    /\ UNCHANGED aloneVars

\* The dict comprehension, once every action is processed.
BuildEntriesByFilename ==
    /\ pc = "process"
    /\ position.action > Len(action_graph)
    /\ entries_by_filename' = DictItems(entries, 1, <<>>)
    /\ pc' = "synthesize"
    /\ UNCHANGED <<fs, returncode, stdout, action_graph, heap, entries, position,
                   compile_commands, exit_status, raised>>
    /\ UNCHANGED aloneVars

\* One pass of the inner loop: the current item of entries_by_filename and
\* the current template extension.  dict(entry) copies the entry's keys, not
\* the list its "arguments" names: the forced include is appended to the
\* list the copied entry has too.
SynthesizeNext ==
    /\ pc = "synthesize"
    /\ position.item <= Len(entries_by_filename)
    /\ LET item == entries_by_filename[position.item]
           entry == entries[item.entry]
           inl_file == with_suffix(item.key, TEMPLATE_EXTENSIONS[position.extension])
           header == FirstHeader(inl_file, fs, 1)
       IN  IF PathJoin(workspace, inl_file) \in fs
              /\ inl_file \notin Keys(entries_by_filename)
           THEN /\ entries' = Append(entries,
                       [entry EXCEPT !.file = inl_file, !.output = <<>>])
                /\ heap' =
                       IF header = 0 THEN heap
                       ELSE [heap EXCEPT ![entry.arguments] =
                                @ \o << <<"-include">>,
                                        with_suffix(inl_file, HEADER_EXTENSIONS[header]) >>]
           ELSE UNCHANGED <<entries, heap>>
    /\ position' =
           IF position.extension < Len(TEMPLATE_EXTENSIONS)
           THEN [position EXCEPT !.extension = @ + 1]
           ELSE [position EXCEPT !.item = @ + 1, !.extension = 1]
    /\ UNCHANGED <<fs, pc, returncode, stdout, action_graph, entries_by_filename,
                   compile_commands, exit_status, raised>>
    /\ UNCHANGED aloneVars

\* The file is opened for writing and the entries are dumped; main returns.
WriteCompileCommands ==
    /\ pc = "synthesize"
    /\ position.item > Len(entries_by_filename)
    /\ compile_commands' = [opened |-> TRUE, entries |-> Dumped(entries, heap)]
    /\ exit_status' = <<0>>
    /\ pc' = "exited"
    /\ UNCHANGED <<fs, returncode, stdout, action_graph, heap, entries,
                   entries_by_filename, position, raised>>
    /\ UNCHANGED aloneVars

Next ==
    \/ QueryFailed
    \/ QuerySucceeded
    \/ ProcessNextAction
    \/ BuildEntriesByFilename
    \/ SynthesizeNext
    \/ WriteCompileCommands

Spec == Init /\ [][Next]_vars

----------------------------------------------------------------------------
(* the claims about a run of main *)

\* The database as written.
Database == compile_commands.entries

\* The run has written the database and ended.
Written == pc = "exited" /\ compile_commands.opened

\* What process_action gives for the i-th action as the query returned it.
Processed(i) == process_action(stdout[i], fs)

\* The forced-include pair a synthetic entry for inl_file is to carry: the
\* first header that exists among .hh, .hpp, .h, or nothing.
ForcedInclude(inl_file) ==
    IF with_suffix(inl_file, ".hh") \in fs
    THEN << <<"-include">>, with_suffix(inl_file, ".hh") >>
    ELSE IF with_suffix(inl_file, ".hpp") \in fs
    THEN << <<"-include">>, with_suffix(inl_file, ".hpp") >>
    ELSE IF with_suffix(inl_file, ".h") \in fs
    THEN << <<"-include">>, with_suffix(inl_file, ".h") >>
    ELSE <<>>

\* C1: when a batch holds an action with no -o flag or no -c flag beside a
\* well-formed one, the run still completes and writes the database, and every well-formed action of
\* the batch, also one after the malformed one, has its entry in it.
C1_MalformedActionDropped ==
    (/\ pc = "exited"
     /\ returncode = <<0>>
     /\ \E i \in 1..Len(stdout) :
            Count(stdout[i], <<"-o">>) = 0 \/ Count(stdout[i], <<"-c">>) = 0
     /\ \E i \in 1..Len(stdout) : Processed(i).raised = "none")
    => /\ compile_commands.opened
       /\ \A i \in 1..Len(stdout) :
              Processed(i).raised = "none" =>
                  \E k \in 1..Len(Database) :
                      /\ Database[k].file = Processed(i).entry[1].file
                      /\ Database[k].output = Processed(i).entry[1].output

\* C3: in the written database every primary entry's arguments are exactly
\* the sequence process_action produced for its action, whatever synthetic
\* entries were made from it; and no two entries share one argument list.
C3_PrimaryArgumentsUnchanged ==
    Written =>
        /\ \A i \in 1..Len(stdout) :
               Database[i].arguments = Processed(i).entry[1].arguments
        /\ \A j, k \in 1..Len(entries) :
               j # k => entries[j].arguments # entries[k].arguments

\* C4: every entry of the written database has a file that exists; an action
\* whose source exists neither under the workspace nor under the execution
\* root yields no entry.
C4_FileExists ==
    Written => \A k \in 1..Len(Database) : Database[k].file \in fs

\* C6: every synthetic entry has no output, and its arguments are its
\* parent's rewritten arguments followed by the forced-include pair of the
\* first header that exists (.hh, .hpp, .h in that order), or by nothing when
\* none exists; also when the parent has both an .inl and a .tcc sibling.
C6_SyntheticEntryArguments ==
    Written =>
        \A k \in (Len(stdout) + 1)..Len(Database) :
            /\ Database[k].output = <<>>
            /\ \E i \in 1..Len(stdout) :
                   /\ \E e \in 1..Len(TEMPLATE_EXTENSIONS) :
                          Database[k].file =
                              with_suffix(Database[i].file, TEMPLATE_EXTENSIONS[e])
                   /\ Database[k].arguments =
                          Processed(i).entry[1].arguments
                              \o ForcedInclude(Database[k].file)

\* C10: the written database has at most one entry per file path: of several
\* actions for one file only the last one's entry is kept, and a template
\* file gets a synthetic entry only if no entry exists for its path yet.
C10_OneEntryPerFile ==
    Written =>
        \A j, k \in 1..Len(Database) :
            j # k => Database[j].file # Database[k].file

\* C7: a query that ends with a non-zero status ends the run with that
\* status and leaves compile_commands.json as it was; the file is written
\* only after the query succeeded and every action was processed, and the
\* run that writes it exits with 0.
C7_ExitStatusAndOutputFile ==
    /\ (pc = "exited" /\ returncode # <<>> /\ returncode # <<0>>) =>
           /\ exit_status = returncode
           /\ compile_commands = PriorFile
    /\ compile_commands # PriorFile =>
           /\ compile_commands.opened
           /\ returncode = <<0>>
           /\ position.action > Len(stdout)
           /\ Len(entries) >= Len(stdout)
           /\ position.item > Len(entries_by_filename)
           /\ raised = "none"
           /\ exit_status = <<0>>
    /\ (pc = "exited" /\ returncode = <<0>> /\ raised = "none") =>
           /\ exit_status = <<0>>
           /\ compile_commands.opened
    /\ pc # "exited" => exit_status = <<>> /\ compile_commands = PriorFile

\* C7's case: the query ended with status 2 and the run has ended.
C7_Witness ==
    /\ pc = "exited"
    /\ returncode = <<2>>
    /\ exit_status = <<2>>
    /\ ~ compile_commands.opened

====
